---- MODULE Spec2Model ----
(***************************************************************************)
(* A model of the font cache of genpdf (src/fonts.rs): FontData, the Font  *)
(* handle, FontFamily and FontCache with its embedding pass.               *)
(***************************************************************************)
EXTENDS Integers, Sequences, FiniteSets, TLC

VARIABLES
    cache,                \* "none" before FontCache::new returned Ok, "live" after
    fonts,                \* FontCache.fonts: Vec<FontData>
    pdf_fonts,            \* FontCache.pdf_fonts: Vec<IndirectFontRef>
    default_font_family,  \* FontCache.default_font_family: Option (<<>> or <<family>>)
    renderer,             \* the embedding target: every load_font it accepted, in order
    minted,               \* the Font handles add_font has returned so far
    load_called,          \* whether load_pdf_fonts was ever called on the cache
    fonts_at_pass,        \* how many fonts the cache held at its latest load_pdf_fonts
    result                \* the last call: operation, arguments and returned value

vars == <<cache, fonts, pdf_fonts, default_font_family, renderer, minted,
          load_called, fonts_at_pass, result>>

---------------------------------------------------------------------------
\* Bounds of the model.

\* The longest font list explored.
MaxFonts == 8

\* The most load_font calls the embedding target accepts in one run.
MaxEmbedded == 9

---------------------------------------------------------------------------
\* Lengths as fractions (numerator over denominator).

Ratio(n, d) == [num |-> n, den |-> d]

\* printpdf: Mm::from(Pt) multiplies by 0.352778 (= 176389 / 500000).
PtToMm(q) == Ratio(q.num * 176389, q.den * 500000)

---------------------------------------------------------------------------
\* Font data.

\* Font files, as the byte buffers the metrics library reads them from:
\* <<units per em, ascent, descent, line gap, advance width of the narrow
\* glyphs, advance width of the wide glyphs>>.  Four style files of one
\* typeface, a monospaced font, and a font that is not scalable.
RegularBytes == <<1000, 800, -200, 100, 500, 800>>
BoldBytes == <<1000, 800, -200, 100, 550, 850>>
ItalicBytes == <<2048, 1900, -500, 0, 1000, 1700>>
BoldItalicBytes == <<2048, 1900, -500, 0, 1100, 1800>>
MonoBytes == <<1000, 750, -250, 0, 600, 600>>
BrokenBytes == <<0, 800, -200, 100, 600, 600>>

\* The buffers rusttype parses into a scalable font.
ScalableBytes == {RegularBytes, BoldBytes, ItalicBytes, BoldItalicBytes, MonoBytes}

\* rusttype::Font::from_bytes, with the accessors the cache uses.
from_bytes(data) ==
    [units_per_em |-> data[1], ascent |-> data[2], descent |-> data[3],
     line_gap |-> data[4], advance_width |-> data[5], wide_advance_width |-> data[6]]

\* FontData::new: the parsed font together with the raw bytes.
FontData_new(data) == [rt_font |-> from_bytes(data), raw_data |-> data]

\* The FontData values callers hand to add_font.
FontDatas == {FontData_new(b) : b \in {MonoBytes, RegularBytes, BrokenBytes}}

\* FontFamily<T>: regular, bold, italic, bold_italic.
FontFamily(r, b, i, bi) == [regular |-> r, bold |-> b, italic |-> i, bold_italic |-> bi]

\* The families callers hand to new and add_font_family (from_files): the
\* four style files of the typeface, any of which may be the broken font.
Families ==
    {FontFamily(FontData_new(r), FontData_new(b), FontData_new(i), FontData_new(bi)) :
        r \in {RegularBytes, BrokenBytes}, b \in {BoldBytes, BrokenBytes},
        i \in {ItalicBytes, BrokenBytes}, bi \in {BoldItalicBytes, BrokenBytes}}

\* What an embedding target may reject: nothing, or one of the buffers.
Rejections == {{}} \cup {{b} : b \in ScalableBytes}

\* Style, as FontFamily::get reads it.
Styles == [bold : BOOLEAN, italic : BOOLEAN]
is_bold(style) == style.bold
is_italic(style) == style.italic

---------------------------------------------------------------------------
\* Results: Ok(values) or Err(kind).

Ok(v) == [ok |-> TRUE, kind |-> "none", value |-> v]
Err(k) == [ok |-> FALSE, kind |-> k, value |-> <<>>]

\* A FontCache value; default_font_family is <<>> for None, <<f>> for Some(f).
FontCache(fs, pdf, dff) ==
    [fonts |-> fs, pdf_fonts |-> pdf, default_font_family |-> dff]

\* Font::new without the check of the scale: every font gets a handle.
Font_new_Unchecked(idx, rt_font) ==
    LET scale == rt_font.units_per_em
        glyph_height == rt_font.ascent - rt_font.descent
        line_height == glyph_height + rt_font.line_gap
    IN  Ok(<<[idx |-> idx, scale |-> scale,
              line_height |-> PtToMm(Ratio(line_height, scale)),
              glyph_height |-> PtToMm(Ratio(glyph_height, scale))]>>)

\* Font::new: the handle for index idx, or InvalidFont for a font that is
\* not scalable.
Font_new(idx, rt_font) ==
    IF rt_font.units_per_em = 0
    THEN Err("InvalidFont")
    ELSE LET scale == rt_font.units_per_em
             glyph_height == rt_font.ascent - rt_font.descent
             line_height == glyph_height + rt_font.line_gap
         IN  Ok(<<[idx |-> idx, scale |-> scale,
                   line_height |-> PtToMm(Ratio(line_height, scale)),
                   glyph_height |-> PtToMm(Ratio(glyph_height, scale))]>>)

\* add_font taking the index after the push (off by one).
add_font_IndexAfterPush(self, font_data) ==
    LET font == Font_new(Len(self.fonts) + 1, font_data.rt_font)
    IN  IF ~font.ok
        THEN [self |-> self, res |-> font, minted |-> {}]
        ELSE [self |-> [self EXCEPT !.fonts = Append(@, font_data)],
              res |-> font, minted |-> {font.value[1]}]

\* add_font keeping the two lists parallel: a placeholder reference is pushed
\* with the font.
add_font_PushRef(self, font_data) ==
    LET font == Font_new(Len(self.fonts), font_data.rt_font)
    IN  IF ~font.ok
        THEN [self |-> self, res |-> font, minted |-> {}]
        ELSE [self |-> [self EXCEPT !.fonts = Append(@, font_data),
                                    !.pdf_fonts = Append(@, [name |-> Len(@)])],
              res |-> font, minted |-> {font.value[1]}]

\* add_font pushing the data before Font::new checks it.
add_font_PushFirst(self, font_data) ==
    LET font == Font_new(Len(self.fonts), font_data.rt_font)
    IN  [self |-> [self EXCEPT !.fonts = Append(@, font_data)], res |-> font,
         minted |-> IF font.ok THEN {font.value[1]} ELSE {}]

\* add_font putting the new font in front of the list.
add_font_Prepend(self, font_data) ==
    LET font == Font_new(Len(self.fonts), font_data.rt_font)
    IN  IF ~font.ok
        THEN [self |-> self, res |-> font, minted |-> {}]
        ELSE [self |-> [self EXCEPT !.fonts = <<font_data>> \o @],
              res |-> font, minted |-> {font.value[1]}]

\* FontCache::add_font: the cache afterwards, the returned
\* Result<Font, Error>, and the handles Font::new created.
add_font(self, font_data) ==
    LET font == Font_new(Len(self.fonts), font_data.rt_font)
    IN  IF ~font.ok
        THEN [self |-> self, res |-> font, minted |-> {}]
        ELSE [self |-> [self EXCEPT !.fonts = Append(@, font_data)],
              res |-> font, minted |-> {font.value[1]}]

\* add_font_family registering the bold variant before the regular one.
add_font_family_BoldFirst(self, family) ==
    LET r1 == add_font(self, family.bold)
        r2 == add_font(r1.self, family.regular)
        r3 == add_font(r2.self, family.italic)
        r4 == add_font(r3.self, family.bold_italic)
    IN  IF ~r1.res.ok THEN r1
        ELSE IF ~r2.res.ok THEN [r2 EXCEPT !.minted = r1.minted \cup @]
        ELSE IF ~r3.res.ok THEN [r3 EXCEPT !.minted = r1.minted \cup r2.minted \cup @]
        ELSE IF ~r4.res.ok
             THEN [r4 EXCEPT !.minted = r1.minted \cup r2.minted \cup r3.minted \cup @]
        ELSE [self |-> r4.self,
              res |-> Ok(<<FontFamily(r2.res.value[1], r1.res.value[1],
                                      r3.res.value[1], r4.res.value[1])>>),
              minted |-> r1.minted \cup r2.minted \cup r3.minted \cup r4.minted]

\* add_font_family storing the family it registered as the default family.
add_font_family_SetsDefault(self, family) ==
    LET r1 == add_font(self, family.regular)
        r2 == add_font(r1.self, family.bold)
        r3 == add_font(r2.self, family.italic)
        r4 == add_font(r3.self, family.bold_italic)
        fam == <<FontFamily(r1.res.value[1], r2.res.value[1],
                            r3.res.value[1], r4.res.value[1])>>
    IN  IF ~r1.res.ok THEN r1
        ELSE IF ~r2.res.ok THEN [r2 EXCEPT !.minted = r1.minted \cup @]
        ELSE IF ~r3.res.ok THEN [r3 EXCEPT !.minted = r1.minted \cup r2.minted \cup @]
        ELSE IF ~r4.res.ok
             THEN [r4 EXCEPT !.minted = r1.minted \cup r2.minted \cup r3.minted \cup @]
        ELSE [self |-> [r4.self EXCEPT !.default_font_family = fam],
              res |-> Ok(fam),
              minted |-> r1.minted \cup r2.minted \cup r3.minted \cup r4.minted]

\* add_font_family undoing the variants it registered when a later one fails.
add_font_family_Rollback(self, family) ==
    LET r1 == add_font(self, family.regular)
        r2 == add_font(r1.self, family.bold)
        r3 == add_font(r2.self, family.italic)
        r4 == add_font(r3.self, family.bold_italic)
    IN  IF ~r1.res.ok THEN [self |-> self, res |-> r1.res, minted |-> {}]
        ELSE IF ~r2.res.ok THEN [self |-> self, res |-> r2.res, minted |-> {}]
        ELSE IF ~r3.res.ok THEN [self |-> self, res |-> r3.res, minted |-> {}]
        ELSE IF ~r4.res.ok THEN [self |-> self, res |-> r4.res, minted |-> {}]
        ELSE [self |-> r4.self,
              res |-> Ok(<<FontFamily(r1.res.value[1], r2.res.value[1],
                                      r3.res.value[1], r4.res.value[1])>>),
              minted |-> r1.minted \cup r2.minted \cup r3.minted \cup r4.minted]

\* FontCache::add_font_family: four add_font calls, each `?` returning at
\* once on an error.
add_font_family(self, family) ==
    LET r1 == add_font(self, family.regular)
        r2 == add_font(r1.self, family.bold)
        r3 == add_font(r2.self, family.italic)
        r4 == add_font(r3.self, family.bold_italic)
    IN  IF ~r1.res.ok THEN r1
        ELSE IF ~r2.res.ok THEN [r2 EXCEPT !.minted = r1.minted \cup @]
        ELSE IF ~r3.res.ok THEN [r3 EXCEPT !.minted = r1.minted \cup r2.minted \cup @]
        ELSE IF ~r4.res.ok
             THEN [r4 EXCEPT !.minted = r1.minted \cup r2.minted \cup r3.minted \cup @]
        ELSE [self |-> r4.self,
              res |-> Ok(<<FontFamily(r1.res.value[1], r2.res.value[1],
                                      r3.res.value[1], r4.res.value[1])>>),
              minted |-> r1.minted \cup r2.minted \cup r3.minted \cup r4.minted]

\* new swallowing the error of add_font_family: the cache is returned with
\* the fonts registered before the failure and without a default family.
FontCache_new_Lenient(family) ==
    LET font_cache == FontCache(<<>>, <<>>, <<>>)
        r == add_font_family(font_cache, family)
    IN  IF ~r.res.ok
        THEN [self |-> r.self, res |-> Ok(<<>>), minted |-> r.minted]
        ELSE [self |-> [r.self EXCEPT !.default_font_family = r.res.value],
              res |-> Ok(<<>>), minted |-> r.minted]

\* FontCache::new: empty lists and no default family, then the default
\* family is registered and stored.
FontCache_new(family) ==
    LET font_cache == FontCache(<<>>, <<>>, <<>>)
        r == add_font_family(font_cache, family)
    IN  IF ~r.res.ok
        THEN r
        ELSE [self |-> [r.self EXCEPT !.default_font_family = r.res.value],
              res |-> Ok(<<>>), minted |-> r.minted]

\* Renderer::load_font(data) on the target rend, called for the font at
\* index idx: the target rejects the buffers in rejects; otherwise it adds
\* the font to its document and returns a fresh reference to it.
load_font(rend, data, idx, rejects) ==
    IF data \in rejects
    THEN [renderer |-> rend, res |-> Err("EmbeddingFailure")]
    ELSE [renderer |-> Append(rend, [data |-> data, font |-> idx]),
          res |-> Ok(<<[name |-> Len(rend)]>>)]

\* load_loop swallowing a rejection: the rejected font is skipped and the
\* pass goes on.
RECURSIVE load_loop_SkipRejected(_, _, _, _, _)
load_loop_SkipRejected(fs, i, pdf, rend, rejects) ==
    IF i > Len(fs)
    THEN [pdf_fonts |-> pdf, renderer |-> rend, res |-> Ok(<<>>)]
    ELSE LET r == load_font(rend, fs[i].raw_data, i - 1, rejects)
         IN  IF ~r.res.ok
             THEN load_loop_SkipRejected(fs, i + 1, pdf, r.renderer, rejects)
             ELSE load_loop_SkipRejected(fs, i + 1, Append(pdf, r.res.value[1]),
                                         r.renderer, rejects)

\* The loop of load_pdf_fonts from font i (1-based) on; pdf holds the
\* references pushed so far.
RECURSIVE load_loop(_, _, _, _, _)
load_loop(fs, i, pdf, rend, rejects) ==
    IF i > Len(fs)
    THEN [pdf_fonts |-> pdf, renderer |-> rend, res |-> Ok(<<>>)]
    ELSE LET r == load_font(rend, fs[i].raw_data, i - 1, rejects)
         IN  IF ~r.res.ok
             THEN [pdf_fonts |-> pdf, renderer |-> r.renderer, res |-> r.res]
             ELSE load_loop(fs, i + 1, Append(pdf, r.res.value[1]),
                            r.renderer, rejects)

\* load_pdf_fonts without the clear: the references of the pass are pushed
\* after the ones already there.
load_pdf_fonts_NoClear(self, rend, rejects) ==
    LET r == load_loop(self.fonts, 1, self.pdf_fonts, rend, rejects)
    IN  [self |-> [self EXCEPT !.pdf_fonts = r.pdf_fonts],
         renderer |-> r.renderer, res |-> r.res]

\* load_pdf_fonts embedding only the fonts that have no reference yet and
\* keeping the references of earlier passes.
load_pdf_fonts_Incremental(self, rend, rejects) ==
    LET r == load_loop(self.fonts, Len(self.pdf_fonts) + 1, self.pdf_fonts,
                       rend, rejects)
    IN  [self |-> [self EXCEPT !.pdf_fonts = r.pdf_fonts],
         renderer |-> r.renderer, res |-> r.res]

\* load_pdf_fonts building the new list aside and storing it only when the
\* whole pass succeeded: a failed pass keeps the references it found.
load_pdf_fonts_KeepOnError(self, rend, rejects) ==
    LET r == load_loop(self.fonts, 1, <<>>, rend, rejects)
    IN  [self |-> IF r.res.ok THEN [self EXCEPT !.pdf_fonts = r.pdf_fonts] ELSE self,
         renderer |-> r.renderer, res |-> r.res]

\* load_pdf_fonts dropping the fonts it could not embed: after a failed
\* pass the font list is cut back to the embedded fonts.
load_pdf_fonts_DropRejected(self, rend, rejects) ==
    LET r == load_loop(self.fonts, 1, <<>>, rend, rejects)
    IN  [self |-> [self EXCEPT !.pdf_fonts = r.pdf_fonts,
                               !.fonts = SubSeq(@, 1, Len(r.pdf_fonts))],
         renderer |-> r.renderer, res |-> r.res]

\* FontCache::load_pdf_fonts: clear the references, then embed every font
\* in index order.
load_pdf_fonts(self, rend, rejects) ==
    LET r == load_loop(self.fonts, 1, <<>>, rend, rejects)
    IN  [self |-> [self EXCEPT !.pdf_fonts = r.pdf_fonts],
         renderer |-> r.renderer, res |-> r.res]

\* FontCache::default_font_family: the stored family; the expect panics on
\* None.
default_font_family_of(self) ==
    IF self.default_font_family = <<>>
    THEN Err("panic")
    ELSE Ok(self.default_font_family)

\* get_pdf_font clamping the index: a handle past the end of the list gets
\* the last reference.
get_pdf_font_Clamped(self, font) ==
    IF font.idx < Len(self.pdf_fonts)
    THEN <<self.pdf_fonts[font.idx + 1]>>
    ELSE IF self.pdf_fonts = <<>> THEN <<>>
    ELSE <<self.pdf_fonts[Len(self.pdf_fonts)]>>

\* FontCache::get_pdf_font: pdf_fonts.get(font.idx), <<>> for None.
get_pdf_font(self, font) ==
    IF font.idx < Len(self.pdf_fonts)
    THEN <<self.pdf_fonts[font.idx + 1]>>
    ELSE <<>>

\* get testing the bold flag alone first: bold wins over bold and italic.
FontFamily_get_BoldWins(family, style) ==
    IF is_bold(style) THEN family.bold
    ELSE IF is_bold(style) /\ is_italic(style) THEN family.bold_italic
    ELSE IF is_italic(style) THEN family.italic
    ELSE family.regular

\* FontFamily::get(style).
FontFamily_get(family, style) ==
    IF is_bold(style) /\ is_italic(style) THEN family.bold_italic
    ELSE IF is_bold(style) THEN family.bold
    ELSE IF is_italic(style) THEN family.italic
    ELSE family.regular

\* The record of a call: operation, arguments, outcome.
Call(op, arg, rejects, res) ==
    [op |-> op, arg |-> arg, rejects |-> rejects, ok |-> res.ok,
     kind |-> res.kind, value |-> res.value]

FamilyArg(family) ==
    <<family.regular, family.bold, family.italic, family.bold_italic>>

\* The cache the variables hold.
Self == FontCache(fonts, pdf_fonts, default_font_family)

---------------------------------------------------------------------------
Init ==
    /\ cache = "none"
    /\ fonts = <<>>
    /\ pdf_fonts = <<>>
    /\ default_font_family = <<>>
    /\ renderer = <<>>
    /\ minted = {}
    /\ load_called = FALSE
    /\ fonts_at_pass = 0
    /\ result = Call("none", <<>>, {}, Ok(<<>>))

\* FontCache::new(default_font_family): on an error no cache is returned.
New(family) ==
    /\ cache = "none"
    /\ LET r == FontCache_new(family)
       IN  /\ result' = Call("new", FamilyArg(family), {}, r.res)
           /\ IF r.res.ok
              THEN /\ cache' = "live"
                   /\ fonts' = r.self.fonts
                   /\ pdf_fonts' = r.self.pdf_fonts
                   /\ default_font_family' = r.self.default_font_family
                   /\ minted' = r.minted
              ELSE UNCHANGED <<cache, fonts, pdf_fonts, default_font_family, minted>>
    /\ UNCHANGED <<renderer, load_called, fonts_at_pass>>

\* FontCache::add_font(font_data).
AddFont(font_data) ==
    /\ cache = "live"
    /\ Len(fonts) < MaxFonts
    /\ LET r == add_font(Self, font_data)
       IN  /\ fonts' = r.self.fonts
           /\ pdf_fonts' = r.self.pdf_fonts
           /\ default_font_family' = r.self.default_font_family
           /\ minted' = minted \cup r.minted
           /\ result' = Call("add_font", <<font_data>>, {}, r.res)
    /\ UNCHANGED <<cache, renderer, load_called, fonts_at_pass>>

\* FontCache::add_font_family(family).
AddFontFamily(family) ==
    /\ cache = "live"
    /\ Len(fonts) + 4 <= MaxFonts
    /\ LET r == add_font_family(Self, family)
       IN  /\ fonts' = r.self.fonts
           /\ pdf_fonts' = r.self.pdf_fonts
           /\ default_font_family' = r.self.default_font_family
           /\ minted' = minted \cup r.minted
           /\ result' = Call("add_font_family", FamilyArg(family), {}, r.res)
    /\ UNCHANGED <<cache, renderer, load_called, fonts_at_pass>>

\* FontCache::load_pdf_fonts(renderer), the target rejecting the buffers in
\* rejects.
LoadPdfFonts(rejects) ==
    /\ cache = "live"
    /\ Len(renderer) + Len(fonts) <= MaxEmbedded
    /\ LET r == load_pdf_fonts(Self, renderer, rejects)
       IN  /\ fonts' = r.self.fonts
           /\ pdf_fonts' = r.self.pdf_fonts
           /\ default_font_family' = r.self.default_font_family
           /\ renderer' = r.renderer
           /\ result' = Call("load_pdf_fonts", <<>>, rejects, r.res)
    /\ load_called' = TRUE
    /\ fonts_at_pass' = Len(fonts)
    /\ UNCHANGED <<cache, minted>>

Next ==
    \/ \E family \in Families : New(family)
    \/ \E font_data \in FontDatas : AddFont(font_data)
    \/ \E family \in Families : AddFontFamily(family)
    \/ \E rejects \in Rejections : LoadPdfFonts(rejects)

Spec == Init /\ [][Next]_vars

---------------------------------------------------------------------------
\* Single precision.  A positive f32 is m * 2^e with Two23 <= m < Two24 (24
\* significant bits); zero is m = 0, e = 0.  Every operation rounds to the
\* nearest f32, ties to the even mantissa.

Two23 == 8388608
Two24 == 16777216

F32Zero == [m |-> 0, e |-> 0]

\* f32::from of an unsigned integer below 2^24: exact.
F32FromInt(n) ==
    IF n = 0 THEN F32Zero
    ELSE LET k == CHOOSE j \in 0..23 : n >= 2^(23 - j) /\ n < 2^(24 - j)
         IN  [m |-> n * 2^k, e |-> 0 - k]

\* Whether the bits cut off (rem2 / unit halves of the last place) round the
\* mantissa q up.
RoundUp(q, rem2, unit) == rem2 > unit \/ (rem2 = unit /\ q % 2 = 1)

Rounded(q, e, up) ==
    IF ~up THEN [m |-> q, e |-> e]
    ELSE IF q + 1 = Two24 THEN [m |-> Two23, e |-> e + 1]
    ELSE [m |-> q + 1, e |-> e]

\* a / b in f32, for a >= 0 and b > 0: long division of the mantissas, seven
\* quotient bits at a time, until the 24 bits of the result are there.
F32Div(a, b) ==
    IF a.m = 0 THEN F32Zero
    ELSE LET q0 == a.m \div b.m
             r0 == a.m % b.m
             d1 == (r0 * 128) \div b.m
             r1 == (r0 * 128) % b.m
             d2 == (r1 * 128) \div b.m
             r2 == (r1 * 128) % b.m
             d3 == (r2 * 128) \div b.m
             r3 == (r2 * 128) % b.m
             n == IF q0 = 1 THEN 2 ELSE 3
             d4 == (r3 * 2^n) \div b.m
             r4 == (r3 * 2^n) % b.m
             q == (((q0 * 128 + d1) * 128 + d2) * 128 + d3) * 2^n + d4
         IN  Rounded(q, a.e - b.e - 21 - n, RoundUp(q, 2 * r4, b.m))

\* a * f32::from(n) in f32, for a u8 n: the product of the mantissa and n,
\* taken in two halves, is cut back to 24 bits.
F32MulInt(a, n) ==
    IF a.m = 0 \/ n = 0 THEN F32Zero
    ELSE LET hi == (a.m \div 256) * n
             lo == (a.m % 256) * n
             top == hi + (lo \div 256)
             s == CHOOSE t \in 0..8 : top >= 2^(15 + t) /\ top < 2^(16 + t)
             q == hi * 2^(8 - s) + (lo \div 2^s)
             rem == lo % 2^s
         IN  Rounded(q, a.e + s, RoundUp(q, 2 * rem, 2^s))

---------------------------------------------------------------------------
\* Widths.  A width in Mm is m * 2^e * (176389 / 500000) with m odd (or
\* m = 0, e = 0): the point value it was converted from, times the factor
\* of the conversion, which is kept apart from the mantissa.

\* m * 2^e with the mantissa made odd.
Odd(m, e) ==
    IF m = 0 THEN [m |-> 0, e |-> 0]
    ELSE LET k == CHOOSE j \in 0..29 : m % 2^j = 0 /\ m % 2^(j + 1) # 0
         IN  [m |-> m \div 2^k, e |-> e + k]

Mm(m, e) == [m |-> Odd(m, e).m, e |-> Odd(m, e).e, num |-> 176389, den |-> 500000]

\* Mm::from(printpdf::Pt(f64::from(width))): widening an f32 is exact.
Mm_from_Pt(width) == Mm(width.m, width.e)

\* Mm(0.0), where Sum starts.
MmZero == Mm(0, 0)

\* Mm + Mm.
MmAdd(a, b) ==
    LET e == IF a.m = 0 THEN b.e ELSE IF b.m = 0 THEN a.e
             ELSE IF a.e < b.e THEN a.e ELSE b.e
    IN  IF a.m = 0 THEN b
        ELSE IF b.m = 0 THEN a
        ELSE Mm(a.m * 2^(a.e - e) + b.m * 2^(b.e - e), e)

\* The characters measured: a narrow and a wide one.
Chars == {"i", "m"}

\* The longest string measured.
MaxStrLen == 5

Strs == UNION {[1..n -> Chars] : n \in 0..MaxStrLen}

\* The font sizes (u8) measured.
FontSizes == {1, 12, 255}

\* FontCache::get_rt_font: indexing past the end of the list panics.
get_rt_font(self, font) == self.fonts[font.idx + 1].rt_font

\* rusttype: glyph(c).standalone().get_data().unit_h_metrics.advance_width,
\* which every character has (an unknown one gets the .notdef glyph).
advance_width(rt_font, c) ==
    IF c = "m" THEN rt_font.wide_advance_width ELSE rt_font.advance_width

\* char_width multiplying by the size before dividing by the scale.
char_width_MulFirst(font, font_cache, c, font_size) ==
    LET glyph == advance_width(get_rt_font(font_cache, font), c)
        width == F32Div(F32FromInt(glyph * font_size), F32FromInt(font.scale))
    IN  Mm_from_Pt(width)

\* Font::char_width.
char_width(font, font_cache, c, font_size) ==
    LET glyph == advance_width(get_rt_font(font_cache, font), c)
        width == F32MulInt(F32Div(F32FromInt(glyph), F32FromInt(font.scale)), font_size)
    IN  Mm_from_Pt(width)

\* Iterator::sum over Mm: a fold with + from Mm(0.0), first to last.
RECURSIVE sum(_)
sum(ws) ==
    IF ws = <<>> THEN MmZero
    ELSE MmAdd(sum(SubSeq(ws, 1, Len(ws) - 1)), ws[Len(ws)])

\* str_width taking every character to be as wide as the first.
str_width_Monospaced(font, font_cache, s, font_size) ==
    sum([i \in 1..Len(s) |-> char_width(font, font_cache, s[1], font_size)])

\* Font::str_width.
str_width(font, font_cache, s, font_size) ==
    sum([i \in 1..Len(s) |-> char_width(font, font_cache, s[i], font_size)])

\* The family of the four style files.
TypefaceFamily ==
    FontFamily(FontData_new(RegularBytes), FontData_new(BoldBytes),
               FontData_new(ItalicBytes), FontData_new(BoldItalicBytes))

\* A cache as layout code measures text with it: FontCache::new with the
\* typeface, then add_font with the monospaced font.
MeasuredCache ==
    LET created == FontCache_new(TypefaceFamily)
        added == add_font(created.self, FontData_new(MonoBytes))
    IN  [self |-> added.self, minted |-> created.minted \cup added.minted]

\* Layout code is about to measure the string s with a handle of the cache
\* at some font size.
InitW ==
    \E measured \in {MeasuredCache} :
        /\ cache = "live"
        /\ fonts = measured.self.fonts
        /\ pdf_fonts = measured.self.pdf_fonts
        /\ default_font_family = measured.self.default_font_family
        /\ renderer = <<>>
        /\ minted = measured.minted
        /\ load_called = FALSE
        /\ fonts_at_pass = 0
        /\ \E font \in measured.minted, s \in Strs, font_size \in FontSizes :
               result = Call("measure", <<font, s, font_size>>, {}, Ok(<<>>))

\* font.char_width(&cache, c, font_size) for the i-th character c of the
\* string.
CharWidth(i) ==
    /\ result.op = "measure"
    /\ i \in 1..Len(result.arg[2])
    /\ LET font == result.arg[1]
           c == result.arg[2][i]
           font_size == result.arg[3]
       IN  result' = Call("char_width", <<font, c, font_size>>, {},
                          Ok(<<char_width(font, Self, c, font_size)>>))
    /\ UNCHANGED <<cache, fonts, pdf_fonts, default_font_family, renderer, minted,
                   load_called, fonts_at_pass>>

\* font.str_width(&cache, s, font_size).
StrWidth ==
    /\ result.op = "measure"
    /\ LET font == result.arg[1]
           s == result.arg[2]
           font_size == result.arg[3]
       IN  result' = Call("str_width", <<font, s, font_size>>, {},
                          Ok(<<str_width(font, Self, s, font_size)>>))
    /\ UNCHANGED <<cache, fonts, pdf_fonts, default_font_family, renderer, minted,
                   load_called, fonts_at_pass>>

NextW ==
    \/ \E i \in 1..MaxStrLen : CharWidth(i)
    \/ StrWidth

SpecW == InitW /\ [][NextW]_vars

---------------------------------------------------------------------------
\* Helpers of the properties.

\* The step just taken was a call of op (every call records itself in result).
Called(op) == result'.op = op

\* Reference ref was returned by the target for the bytes of the font at
\* index idx (0-based) of the font list fs, as the log rend of the target
\* records it.
EmbedsFont(rend, ref, fs, idx) ==
    /\ ref.name < Len(rend)
    /\ rend[ref.name + 1].data = fs[idx + 1].raw_data
    /\ rend[ref.name + 1].font = idx

\* C1: a successful add_font returns the handle whose index is the length of
\* the font list before the call and appends its argument at that index; the
\* indices handed out are 0, 1, 2, ... with no gap and no repeat.
C1_AddFontIndex ==
    /\ [][(Called("add_font") /\ result'.ok) =>
            /\ result'.value[1].idx = Len(fonts)
            /\ fonts' = Append(fonts, result'.arg[1])]_vars
    /\ [](/\ {h.idx : h \in minted} = 0..(Len(fonts) - 1)
          /\ Cardinality(minted) = Len(fonts))

\* C1 happens: a second successive successful add_font on a live cache.
C1_Witness ==
    /\ result.op = "add_font" /\ result.ok
    /\ Len(fonts) = 6
    /\ result.value[1].idx = 5

C3_RebuiltAligned ==
    [][(Called("load_pdf_fonts") /\ result'.ok) =>
        /\ Len(pdf_fonts') = Len(fonts')
        /\ \A i \in 1..Len(pdf_fonts') :
              /\ pdf_fonts'[i].name >= Len(renderer)
              /\ EmbedsFont(renderer', pdf_fonts'[i], fonts', i - 1)]_vars

\* C3 happens: a successful pass after an earlier pass and after a font was
\* added since.
C3_Witness ==
    /\ result.op = "load_pdf_fonts" /\ result.ok
    /\ Len(fonts) = 5
    /\ Len(renderer) = 9
    /\ Len(pdf_fonts) = 5

\* C4 as stated: the target's load_font is never called a second time for the
\* same registered font.
C4_EmbeddedAtMostOnce ==
    \A idx \in 0..(Len(fonts) - 1) :
        Cardinality({k \in DOMAIN renderer : renderer[k].font = idx}) <= 1

\* C4, amended: each load_pdf_fonts pass embeds every font it reaches exactly
\* once, in index order (all of them when it succeeds); a later pass embeds
\* them again.
C4_OncePerPass ==
    [][Called("load_pdf_fonts") =>
        /\ renderer' = renderer \o
              [i \in 1..Len(pdf_fonts') |->
                  [data |-> fonts[i].raw_data, font |-> i - 1]]
        /\ result'.ok => Len(pdf_fonts') = Len(fonts)]_vars

\* C4 happens: a second successful pass has embedded every font again.
C4_Witness ==
    /\ result.op = "load_pdf_fonts" /\ result.ok
    /\ \A idx \in 0..(Len(fonts) - 1) :
          Cardinality({k \in DOMAIN renderer : renderer[k].font = idx}) = 2

\* C5: while load_pdf_fonts has never been called on the cache, get_pdf_font
\* returns None for every handle the cache has minted.
C5_NoneBeforeLoad ==
    (cache = "live" /\ ~load_called) =>
        \A h \in minted : get_pdf_font(Self, h) = <<>>

\* C5 happens: a cache with two families registered and no pass run yet.
C5_Witness ==
    /\ cache = "live" /\ ~load_called
    /\ Cardinality(minted) = 8
    /\ \A h \in minted : get_pdf_font(Self, h) = <<>>

\* C6: add_font with a font whose units-per-em is 0 returns InvalidFont, mints
\* no handle and leaves the font list as it was.
C6_ZeroUnitsRejected ==
    [][(Called("add_font") /\ result'.arg[1].rt_font.units_per_em = 0) =>
        /\ ~result'.ok
        /\ result'.kind = "InvalidFont"
        /\ result'.value = <<>>
        /\ minted' = minted
        /\ fonts' = fonts]_vars

\* C6 happens: add_font rejected the broken font on a cache that holds more
\* than the default family.
C6_Witness ==
    /\ result.op = "add_font" /\ ~result.ok
    /\ result.arg[1].rt_font.units_per_em = 0
    /\ Len(fonts) = 5

\* C7: a successful add_font_family on a cache of n fonts returns the handles
\* n, n+1, n+2, n+3 for regular, bold, italic, bold_italic and appends the
\* four fonts in that order; the default family of a cache built by new has
\* the indices 0, 1, 2, 3.
C7_FamilyIndices ==
    /\ [][(Called("add_font_family") /\ result'.ok) =>
            LET n == Len(fonts)
                f == result'.value[1]
            IN  /\ f.regular.idx = n
                /\ f.bold.idx = n + 1
                /\ f.italic.idx = n + 2
                /\ f.bold_italic.idx = n + 3
                /\ fonts' = fonts \o result'.arg]_vars
    /\ [][(Called("new") /\ result'.ok) => fonts' = result'.arg]_vars
    /\ [](cache = "live" =>
            LET d == default_font_family_of(Self)
            IN  /\ d.ok
                /\ d.value[1].regular.idx = 0
                /\ d.value[1].bold.idx = 1
                /\ d.value[1].italic.idx = 2
                /\ d.value[1].bold_italic.idx = 3)

\* C7 happens: a second family was registered on a cache of four fonts.
C7_Witness ==
    /\ result.op = "add_font_family" /\ result.ok
    /\ result.value[1].regular.idx = 4
    /\ Len(fonts) = 8

\* C8: on a cache returned by new the default family is present in every
\* later state and is the family new established: no call clears or replaces
\* it.
C8_DefaultFamilyKept ==
    /\ [](cache = "live" => default_font_family_of(Self).ok)
    /\ [][(Called("new") /\ result'.ok) =>
            /\ Len(default_font_family') = 1
            /\ LET d == default_font_family'[1]
               IN  {d.regular, d.bold, d.italic, d.bold_italic} = minted']_vars
    /\ [][cache = "live" => default_font_family' = default_font_family]_vars

\* C8 happens: after a pass another family was registered, and the default
\* family is still the one new established, not the one registered later.
C8_Witness ==
    /\ cache = "live" /\ load_called
    /\ result.op = "add_font_family" /\ result.ok
    /\ default_font_family_of(Self).ok
    /\ default_font_family_of(Self).value # result.value
    /\ default_font_family_of(Self).value[1].regular.idx = 0

\* The styles by name.
Plain == [bold |-> FALSE, italic |-> FALSE]
BoldOnly == [bold |-> TRUE, italic |-> FALSE]
ItalicOnly == [bold |-> FALSE, italic |-> TRUE]
BoldAndItalic == [bold |-> TRUE, italic |-> TRUE]

\* The families of handles at hand: the default one and the one just returned.
HandleFamilies ==
    {default_font_family[i] : i \in DOMAIN default_font_family}
        \cup (IF result.op = "add_font_family"
              THEN {result.value[i] : i \in DOMAIN result.value}
              ELSE {})

\* C9: get returns bold_italic for bold and italic, bold for bold only, italic
\* for italic only and regular for neither; on a family returned by
\* add_font_family the four results are the four handles just registered, in
\* the order regular, bold, italic, bold_italic, pairwise distinct.
C9_GetByStyle ==
    /\ \A f \in Families \cup HandleFamilies :
          /\ FontFamily_get(f, BoldAndItalic) = f.bold_italic
          /\ FontFamily_get(f, BoldOnly) = f.bold
          /\ FontFamily_get(f, ItalicOnly) = f.italic
          /\ FontFamily_get(f, Plain) = f.regular
    /\ (result.op = "add_font_family" /\ result.ok) =>
          LET f == result.value[1]
              n == Len(fonts) - 4
              got == <<FontFamily_get(f, Plain), FontFamily_get(f, BoldOnly),
                       FontFamily_get(f, ItalicOnly), FontFamily_get(f, BoldAndItalic)>>
          IN  /\ \A k \in 1..4 :
                    /\ got[k].idx = n + k - 1
                    /\ got[k] \in minted
                    /\ fonts[n + k] = result.arg[k]
                    /\ got[k].scale = result.arg[k].rt_font.units_per_em
              /\ Cardinality({got[k] : k \in 1..4}) = 4

\* C9 happens: a registered family resolves bold and italic to the handle of
\* the last font registered.
C9_Witness ==
    /\ result.op = "add_font_family" /\ result.ok
    /\ FontFamily_get(result.value[1], BoldAndItalic).idx = 7
    /\ FontFamily_get(result.value[1], Plain).idx = 4

\* The first variant (1..4) of the family arg that is not scalable, 0 if all are.
FirstBroken(arg) ==
    LET bad == {k \in 1..Len(arg) : arg[k].rt_font.units_per_em = 0}
    IN  IF bad = {} THEN 0 ELSE CHOOSE k \in bad : \A j \in bad : k <= j

\* C10: add_font_family registers regular, bold, italic, bold_italic in that
\* order and stops at the first variant add_font rejects: when variant k is the
\* first with units-per-em 0 the call returns InvalidFont and no family, and
\* the font list has grown by the k-1 earlier variants, which stay.
C10_FamilyStopsAtFirstFailure ==
    [][(Called("add_font_family") /\ FirstBroken(result'.arg) > 0) =>
        LET k == FirstBroken(result'.arg)
        IN  /\ ~result'.ok
            /\ result'.kind = "InvalidFont"
            /\ result'.value = <<>>
            /\ fonts' = fonts \o SubSeq(result'.arg, 1, k - 1)
            /\ Len(fonts') = Len(fonts) + k - 1
            /\ Cardinality(minted') = Cardinality(minted) + k - 1]_vars

\* C10 happens: a family whose italic variant is the first broken one left its
\* regular and bold variants registered.
C10_Witness ==
    /\ result.op = "add_font_family" /\ ~result.ok
    /\ FirstBroken(result.arg) = 3
    /\ Len(fonts) = 6

\* The index (0-based) of the first font of fs whose bytes the target
\* rejects, -1 if it rejects none.
FirstRejected(fs, rejects) ==
    LET bad == {i \in 1..Len(fs) : fs[i].raw_data \in rejects}
    IN  IF bad = {} THEN -1 ELSE (CHOOSE i \in bad : \A j \in bad : i <= j) - 1

\* C11: when the target rejects the font at index k, load_pdf_fonts returns
\* the error, embeds no font after k, and leaves exactly the k references of
\* fonts 0..k-1 made in this pass (references of earlier passes are gone);
\* get_pdf_font is then Some for the handles below k and None from k on.
C11_FailedPassLeavesPrefix ==
    [][(Called("load_pdf_fonts") /\ FirstRejected(fonts, result'.rejects) >= 0) =>
        LET k == FirstRejected(fonts, result'.rejects)
            after == FontCache(fonts', pdf_fonts', default_font_family')
        IN  /\ ~result'.ok
            /\ Len(renderer') = Len(renderer) + k
            /\ Len(pdf_fonts') = k
            /\ \A i \in 1..k :
                  /\ pdf_fonts'[i].name >= Len(renderer)
                  /\ EmbedsFont(renderer', pdf_fonts'[i], fonts', i - 1)
            /\ \A h \in minted' :
                  get_pdf_font(after, h) =
                      IF h.idx < k THEN <<pdf_fonts'[h.idx + 1]>> ELSE <<>>]_vars

\* C11 happens: after a successful pass over four fonts, a pass in which the
\* target rejected the third font left two references.
C11_Witness ==
    /\ result.op = "load_pdf_fonts" /\ ~result.ok
    /\ FirstRejected(fonts, result.rejects) = 2
    /\ Len(renderer) = 6
    /\ Len(pdf_fonts) = 2
    /\ get_pdf_font(Self, default_font_family[1].bold) # <<>>
    /\ get_pdf_font(Self, default_font_family[1].italic) = <<>>

\* The sum of the first n of the widths ws, added one after the other from
\* zero.
RECURSIVE SumInOrder(_, _)
SumInOrder(ws, n) ==
    IF n = 0 THEN MmZero ELSE MmAdd(SumInOrder(ws, n - 1), ws[n])

\* C12: str_width of a string is the sum of char_width over its characters
\* in iteration order, for every handle and size, and str_width of the empty
\* string is zero.
C12_StrWidthIsSum ==
    [][Called("str_width") =>
        LET font == result'.arg[1]
            s == result'.arg[2]
            font_size == result'.arg[3]
            ws == [i \in 1..Len(s) |-> char_width(font, Self, s[i], font_size)]
        IN  /\ result'.value = <<SumInOrder(ws, Len(s))>>
            /\ s = <<>> => result'.value[1].m = 0]_vars

\* A string of narrow and wide characters was measured with a font whose
\* glyphs differ in width.
C12_Witness ==
    /\ result.op = "str_width"
    /\ result.arg[2] = <<"i", "m", "m", "i">>
    /\ result.arg[3] = 255
    /\ fonts[result.arg[1].idx + 1].raw_data = BoldItalicBytes
    /\ result.value[1] # str_width(result.arg[1], Self, <<"i", "i", "i", "i">>, 255)
    /\ result.value[1].m > 0

\* C13: the font list is append-only and index-stable.  Every step keeps
\* the fonts already registered at their indices and keeps every handle, and
\* a new handle points into the part of the list the step appended; in every
\* state every handle minted so far indexes inside the font list, at the
\* font it was made from, so get_rt_font stays in bounds.
C13_IndexStable ==
    /\ [](\A h \in minted :
             /\ h.idx < Len(fonts)
             /\ Font_new(h.idx, get_rt_font(Self, h)) = Ok(<<h>>))
    /\ [][/\ Len(fonts') >= Len(fonts)
          /\ \A i \in 1..Len(fonts) : fonts'[i] = fonts[i]
          /\ minted \subseteq minted'
          /\ \A h \in minted' \ minted :
                h.idx >= Len(fonts) /\ h.idx < Len(fonts')]_vars

\* The handle of the first font still reads that font after the list grew
\* to its bound and a pass failed.
C13_Witness ==
    /\ result.op = "load_pdf_fonts" /\ ~result.ok
    /\ Len(fonts) = MaxFonts
    /\ \E h \in minted :
          h.idx = 0 /\ get_rt_font(Self, h) = from_bytes(RegularBytes)
    /\ \E h \in minted : h.idx = MaxFonts - 1

\* C14: no handle minted so far and no registered font has units-per-em 0,
\* so the divisor of char_width is never zero.
C14_NoZeroScale ==
    /\ \A h \in minted : h.scale # 0 /\ F32FromInt(h.scale).m # 0
    /\ \A i \in 1..Len(fonts) : fonts[i].rt_font.units_per_em # 0

\* A family with a font that is not scalable was refused after two of its
\* fonts were registered.
C14_Witness ==
    /\ result.op = "add_font_family" /\ ~result.ok
    /\ result.kind = "InvalidFont"
    /\ result.arg[3].rt_font.units_per_em = 0
    /\ Len(fonts) = 6
    /\ Cardinality(minted) = 6

\* C15 as stated: a handle minted after the latest pass has no reference
\* across every step that is not a successful load_pdf_fonts.
C15_NoneUntilSuccessfulLoad ==
    [][\A h \in minted :
          (/\ load_called
           /\ h.idx >= fonts_at_pass
           /\ ~(Called("load_pdf_fonts") /\ result'.ok))
          => get_pdf_font(FontCache(fonts', pdf_fonts', default_font_family'), h)
                 = <<>>]_vars

\* C15, amended: a newly minted handle has no reference, and no call other
\* than load_pdf_fonts changes what get_pdf_font returns for a handle; after
\* a load_pdf_fonts call a handle has a reference exactly if the pass
\* succeeded or failed at a font after the handle's.
C15_NoneUntilEmbedded ==
    [][LET after == FontCache(fonts', pdf_fonts', default_font_family')
       IN  /\ \A h \in minted' \ minted : get_pdf_font(after, h) = <<>>
           /\ ~Called("load_pdf_fonts") =>
                 \A h \in minted : get_pdf_font(after, h) = get_pdf_font(Self, h)
           /\ Called("load_pdf_fonts") =>
                 \A h \in minted :
                     get_pdf_font(after, h) # <<>> <=>
                         (result'.ok \/ h.idx < FirstRejected(fonts, result'.rejects))]_vars

\* After an earlier pass two fonts were added and the next pass failed at
\* the second of them: the handle of the first has a reference, the handle
\* of the second has none.
C15_Witness ==
    /\ result.op = "load_pdf_fonts" /\ ~result.ok
    /\ fonts_at_pass = 6
    /\ Len(renderer) > Len(pdf_fonts)
    /\ Len(pdf_fonts) = 5
    /\ \E h \in minted : h.idx = 4 /\ get_pdf_font(Self, h) # <<>>
    /\ \E h \in minted : h.idx = 5 /\ get_pdf_font(Self, h) = <<>>

\* C16: add_font and add_font_family, successful or failed, leave the
\* embedded references and the default family as they are and keep the
\* registered fonts where they are; load_pdf_fonts, successful or failed,
\* leaves the font list and the default family as they are.
C16_Frames ==
    [][/\ (Called("add_font") \/ Called("add_font_family")) =>
             /\ pdf_fonts' = pdf_fonts
             /\ default_font_family' = default_font_family
             /\ Len(fonts') >= Len(fonts)
             /\ SubSeq(fonts', 1, Len(fonts)) = fonts
       /\ Called("load_pdf_fonts") =>
             /\ fonts' = fonts
             /\ default_font_family' = default_font_family]_vars

\* A pass failed on a cache that holds references to none of its six fonts
\* but the first, and the fonts are all still there.
C16_Witness ==
    /\ result.op = "load_pdf_fonts" /\ ~result.ok
    /\ Len(fonts) = 6
    /\ Len(pdf_fonts) = 1
    /\ default_font_family # <<>>

\* C17: new fails exactly when one of the four fonts of the default family
\* has units-per-em 0; it then returns InvalidFont and no cache.  When it
\* succeeds the cache holds exactly the four fonts of the family, no
\* embedded reference, and the default family with the handles 0, 1, 2, 3.
C17_NewAllOrNothing ==
    [][Called("new") =>
        LET broken == \E i \in 1..4 : result'.arg[i].rt_font.units_per_em = 0
        IN  /\ result'.ok <=> ~broken
            /\ ~result'.ok =>
                  /\ result'.kind = "InvalidFont"
                  /\ cache' = "none"
                  /\ fonts' = <<>> /\ pdf_fonts' = <<>>
                  /\ default_font_family' = <<>>
                  /\ minted' = {}
            /\ result'.ok =>
                  /\ cache' = "live"
                  /\ fonts' = result'.arg
                  /\ pdf_fonts' = <<>>
                  /\ Len(default_font_family') = 1
                  /\ default_font_family'[1].regular.idx = 0
                  /\ default_font_family'[1].bold_italic.idx = 3
                  /\ Cardinality(minted') = 4]_vars

\* new was refused because the last font of the family is not scalable, and
\* there is no cache.
C17_Witness ==
    /\ result.op = "new" /\ ~result.ok
    /\ result.arg[4].rt_font.units_per_em = 0
    /\ \A i \in 1..3 : result.arg[i].rt_font.units_per_em # 0
    /\ cache = "none"

\* The width w is the conversion of exactly n / d points.
IsConversionOf(w, n, d) ==
    /\ w.num = 176389 /\ w.den = 500000
    /\ IF w.e >= 0 THEN w.m * 2^w.e * d = n ELSE w.m * d = n * 2^(0 - w.e)

\* The font of the handle has units-per-em 1000 and advance width 600 for
\* every glyph.
Monospaced600(font) ==
    /\ font.scale = 1000
    /\ \A c \in Chars : advance_width(get_rt_font(Self, font), c) = 600

====
